---- MODULE Spec2Model ----
(***************************************************************************)
(* The upload screen (UploadScreen: startUploadFlow, its effect, Cancel    *)
(* and Retry), the upload transport (uploadVideo) and the init/complete    *)
(* client calls of OptiInstructionFrontend.                                *)
(*                                                                         *)
(* JavaScript runs one task at a time.  A task is an action of this model: *)
(* a user event, a lifecycle callback or a network event together with the *)
(* code that runs synchronously in it.  The continuation of                *)
(* `await uploadVideo(...)` runs as a microtask once the promise settles:  *)
(* it is queued in `microtasks`, and no other task starts while the queue  *)
(* is non-empty.                                                           *)
(*                                                                         *)
(* The setters of the screen's state are modelled as assignments, also     *)
(* after the screen is unmounted, when nothing renders the values any more.*)
(* An invocation that has returned keeps only its count of calls.          *)
(*                                                                         *)
(* The result screen (ResultScreen) polls the recording status through     *)
(* useQuery: the query fetches when the screen mounts, computes the        *)
(* interval from `refetchInterval(data)` after every result, keeps one     *)
(* request in flight, may retry a failed request, keeps its data across    *)
(* failures and stops when its only observer unmounts.  SpecPoll is that   *)
(* screen alone; SpecSeen is the upload screen mounted once, with the      *)
(* reply to its init request kept in view.                                 *)
(***************************************************************************)
EXTENDS Integers, Sequences, FiniteSets, TLC

\* ---------------------------------------------------------------- bounds
\* Status requests one result screen issues.
MaxPolls == 4
\* Number of startUploadFlow invocations of one screen instance.
MaxFlows == 2
\* Number of equal parts of the file a progress event can report.
FileChunks == 2

Flows == 1..MaxFlows

\* ------------------------------------------------------------ input sets
\* HTTP status codes the upload endpoint answers with: to the screen's
\* transfers, and to a transfer taken alone.
Statuses == {200, 300, 500}
TransferStatuses == {199, 200, 299, 300, 500}
\* HTTP status code of a rejected init / complete request.
ApiErrorStatus == {500}
\* Values of the route parameter `uri`; "" is the missing parameter.
VideoUris == {"", "file:///rec.mp4"}
\* Strings that parse as absolute URLs among the ones the backend may send.
AbsoluteUrls == {"https://x/up"}

\* JSON values of a field of the init payload: a string, a non-string, absent.
JString(s) == [t |-> "string", v |-> s]
JNumber == [t |-> "number", v |-> ""]
JAbsent == [t |-> "absent", v |-> ""]
InitPayloads ==
  [recordingId : {JString("r1"), JString(""), JAbsent},
   uploadUrl : {JString("https://x/up"), JString("up"), JNumber, JAbsent},
   headers : {JAbsent, JNumber, [t |-> "record", v |-> ""]}]

\* The values of recordingStatusSchema's enum.
StatusEnum ==
  {"CREATED", "UPLOADING", "UPLOADED", "PROCESSING", "COMPLETED", "FAILED"}
\* A `steps` array whose elements all satisfy recordingStepSchema, or not all.
JSteps(valid) == [t |-> "array", v |-> IF valid THEN "steps" ELSE "junk"]
\* JSON bodies of a status response.
StatusPayloads ==
  [recordingId : {JString("r1"), JAbsent},
   status : {JString(s) : s \in StatusEnum \cup {"BOGUS"}} \cup {JAbsent},
   error : {JAbsent, JString("boom"), JNumber},
   steps : {JAbsent, JSteps(TRUE), JSteps(FALSE)}]
\* A body that is not JSON.
NotJson == [recordingId |-> JAbsent, status |-> JAbsent, error |-> JAbsent,
            steps |-> [t |-> "notjson", v |-> ""]]
\* HTTP status codes of a status response.
PollStatuses == {200, 404, 500}
\* What a status request ends with: fetch rejects, or a response arrives.
StatusReplies ==
  [kind : {"reject"}, status : {0}, body : {NotJson}, text : {""}]
    \cup [kind : {"response"}, status : PollStatuses \ {200},
          body : {NotJson}, text : {""}]
    \cup [kind : {"response"}, status : {200}, text : {""},
          body : StatusPayloads \cup {NotJson}]
\* Values of the route parameter `recordingId`; "" when it is not a string.
ResultIds == {"", "r1"}

\* What an init request ends with: fetch rejects, or a response arrives.
NoBody == [recordingId |-> JAbsent, uploadUrl |-> JAbsent, headers |-> JAbsent]
NoReply == [kind |-> "none", status |-> 0, body |-> NoBody, text |-> ""]
InitReplies ==
  [kind : {"reject"}, status : {0}, body : {NoBody}, text : {""}]
    \cup [kind : {"response"}, status : ApiErrorStatus, body : {NoBody},
          text : {""}]
    \cup [kind : {"response"}, status : {200}, body : InitPayloads,
          text : {""}]
\* What a complete request ends with; its body is not read on success.
CompleteReplies ==
  [kind : {"reject"}, status : {0}, body : {NoBody}, text : {""}]
    \cup [kind : {"response"}, status : ApiErrorStatus \cup {200},
          body : {NoBody}, text : {""}]

\* event.total of the progress events of a transfer: the parts of the file,
\* or 0 when the length is not computable.
Totals == {0, FileChunks}

\* Results of FileSystem.getInfoAsync(videoUri, {size: true}).
\* info.size is a number or undefined; getInfoAsync may also throw.
Num(n) == [t |-> "number", v |-> n]
Undefined == [t |-> "undefined", v |-> 0]
FileInfos ==
  {[exists |-> FALSE, size |-> Undefined], [exists |-> TRUE, size |-> Undefined],
   [exists |-> TRUE, size |-> Num(0)], [exists |-> TRUE, size |-> Num(7)]}
NoInfo == [exists |-> FALSE, size |-> Undefined, thrown |-> FALSE]
InfoOutcomes ==
  {[exists |-> i.exists, size |-> i.size, thrown |-> FALSE] : i \in FileInfos}
    \cup {[NoInfo EXCEPT !.thrown = TRUE]}
\* !value for a number or undefined (variant: 0 is let through)
FalsyUndefinedOnly(value) == value.t = "undefined"
Falsy(value) == value.t = "undefined" \/ value.v = 0

\* ----------------------------------------------------------------- state
VARIABLES
  videoUri,     \* params.uri of the screen instance
  mounted,      \* the screen is mounted
  state,        \* useState<UploadState>
  error,        \* useState<string | null>
  progress,     \* useState(0): the fraction, in parts of 1/FileChunks
  recordingId,  \* useState<string | null>
  abortRef,     \* abortRef.current: 0 (null) or the controller of a flow
  pc,           \* per invocation of startUploadFlow: where it is suspended
  initResponse, \* per invocation: the parsed init response it holds
  aborted,      \* per AbortController: signal.aborted
  xhr,          \* per uploadVideo call: the XMLHttpRequest and its promise
  microtasks,   \* queued continuations of settled uploadVideo promises
  calls,        \* per invocation: network calls issued so far, the size the
                \* init request carried, the id of the completion in flight
  handoff,      \* router.replace('/result', ...) calls: <<flow, recordingId>>
  owner,        \* the invocation that last wrote `state` (0: none)
  cancelled,    \* invocations showing 'uploading' when Cancel was pressed
  cleanupAt,    \* per invocation: the state it was in at the first cleanup
  raisedEarly,  \* signals raised before their uploadVideo call had settled
  initReply,    \* what the init request last observed ended with
  fileInfo,     \* what getInfoAsync last observed ended with
  completeReply, \* what the completion request last observed ended with
  resultId,     \* ResultScreen: recordingId taken from the route params
  observer,     \* ResultScreen: the useQuery subscription of the screen
  statusData,   \* useQuery: data, the last RecordingStatus fetched
  isFetching,   \* useQuery: a status request is in flight
  isError,      \* useQuery: the query is in the error state
  timer,        \* useQuery: the refetch interval is armed
  requests,     \* status requests issued so far
  received,     \* outcomes of the status requests, in order of arrival
  delivered,    \* statuses rendered by the screen, in order
  apiCall,      \* a client call taken alone: function, reply and outcome
  isRecording,  \* RecordScreen: useState(false)
  markers,      \* RecordScreen: useState<number[]>([])
  recordingError, \* RecordScreen: useState<string | null>(null)
  startTimeRef, \* RecordScreen: startTimeRef.current (0: null)
  now,          \* Date.now(), in seconds
  camera,       \* the camera: its phase and the callback it was started with
  tagged,       \* the seconds Mark Step added since recording was started
  pushed        \* router.push('/preview', ...) calls: their params, in order

vars ==
  <<videoUri, mounted, state, error, progress, recordingId, abortRef, pc,
    initResponse, aborted, xhr, microtasks, calls, handoff, owner,
    cancelled, cleanupAt, raisedEarly, initReply, fileInfo, completeReply,
    resultId, observer,
    statusData, isFetching, isError, timer, requests, received, delivered,
    apiCall, isRecording, markers, recordingError, startTimeRef, now, camera,
    tagged, pushed>>

\* The state of the result screen.
resultVars ==
  <<resultId, observer, statusData, isFetching, isError, timer, requests,
    received, delivered>>

\* The variables of what is followed apart from the two screens.
recordVars ==
  <<isRecording, markers, recordingError, startTimeRef, now, camera, tagged,
    pushed>>
apartVars == <<apiCall, recordVars>>


\* --------------------------------------------------------------- values
NoError == [text |-> "null", code |-> 0, detail |-> ""]
Msg(text) == [text |-> text, code |-> 0, detail |-> ""]
MsgN(text, n) == [text |-> text, code |-> n, detail |-> ""]
\* What response.text() gives when reading the body fails.
Unreadable == "<unreadable>"
\* The message of an error the platform throws (fetch, json(), getInfoAsync,
\* send): not a text of this repository.
PlatformError == Msg("<platform>")

NoResponse == [recordingId |-> "null", uploadUrl |-> "null"]
NullId == "null"

Pending == [kind |-> "pending", err |-> NoError]
Resolved == [kind |-> "resolved", err |-> NoError]
Rejected(kind, err) == [kind |-> kind, err |-> err]

NoXhr ==
  [readyState |-> "unsent", settled |-> FALSE, outcome |-> Pending,
   status |-> 0, event |-> "none", sent |-> 0, total |-> 0,
   resolves |-> 0, rejects |-> 0]
\* The request of an invocation that has returned: it is DONE or was never
\* sent, its promise has been consumed, and no event reaches it any more.
Released == [NoXhr EXCEPT !.readyState = "released"]

\* useQuery's data before the first successful fetch (undefined)
NoData ==
  [recordingId |-> "", status |-> "undefined", error |-> JAbsent,
   steps |-> JAbsent]

\* sizeBytes: the sizeBytes of the init request, 0 before it is sent
NoCalls ==
  [init |-> 0, upload |-> 0, complete |-> 0, sizeBytes |-> 0,
   completeId |-> NullId]

\* ------------------------------------------------- uploadVideo (transport)
\* xhr.status >= 200 && xhr.status < 300
\* (variants: the upper limit taken inclusive; the upper limit left out)
IsOkInclusive(status) == status >= 200 /\ status <= 300
IsOkNoUpper(status) == status >= 200
IsOk(status) == status >= 200 /\ status < 300

\* The request reaches readyState DONE with the event and status given; the
\* count of parts sent and the total, which only later progress events would
\* read, are dropped.
Done(x, event, status) ==
  [x EXCEPT !.readyState = "done", !.event = event, !.status = status,
            !.sent = 0, !.total = 0]

\* rejectOnce(error); `rejects` counts the calls of reject
\* (variant: `settled` is not tested)
RejectEach(x, kind, err) ==
  [x EXCEPT !.settled = TRUE, !.outcome = Rejected(kind, err),
            !.rejects = @ + 1]
RejectOnce(x, kind, err) ==
  IF x.settled THEN x
  ELSE [x EXCEPT !.settled = TRUE, !.outcome = Rejected(kind, err),
                 !.rejects = @ + 1]

\* xhr.onload; `resolves` counts the calls of resolve
OnLoad(x) ==
  IF x.settled THEN x
  ELSE [x EXCEPT !.settled = TRUE,
                 !.outcome = IF IsOk(x.status) THEN Resolved
                             ELSE Rejected("status",
                                    MsgN("Upload failed with status", x.status)),
                 !.resolves = IF IsOk(x.status) THEN @ + 1 ELSE @,
                 !.rejects = IF IsOk(x.status) THEN @ ELSE @ + 1]

\* xhr.onerror
OnError(x) == RejectOnce(x, "network", Msg("Network error during upload"))

\* xhr.onabort
\* (variant: no handler is set, the promise is left pending)
OnAbortUnhandled(x) == x
OnAbort(x) == RejectOnce(x, "abort", Msg("Upload aborted"))

\* (variant: the listener's readyState test inverted, so that a request in
\* flight is left alone)
SignalListenerInverted(x) == IF x.readyState = "done" THEN x ELSE x

\* The 'abort' listener uploadVideo adds to the signal.  xhr.abort() of a
\* request that was sent and is not DONE makes it DONE and dispatches 'abort'
\* synchronously; of a request that was never sent it dispatches nothing.
SignalListener(x) ==
  IF x.readyState # "done"
  THEN IF x.readyState = "sent"
       THEN OnAbort(Done(x, "abort", 0))
       ELSE x
  ELSE x

\* new XMLHttpRequest(); open; handlers; headers; listener; send(fileBody),
\* where send either starts the transfer or throws; `total` is the
\* event.total of the transfer's progress events.
UploadVideo(sendThrows, total) ==
  IF sendThrows
  THEN RejectOnce([NoXhr EXCEPT !.readyState = "opened", !.event = "throw"],
                  "send", PlatformError)
  ELSE [NoXhr EXCEPT !.readyState = "sent", !.total = total]

\* event.total > 0 ? event.loaded / event.total : 0, as the number of
\* 1/FileChunks the quotient is (a known total is FileChunks parts).
\* (variant: the quotient taken the other way round)
FractionInverted(loaded, total) ==
  IF loaded > 0 THEN (total * FileChunks) \div loaded ELSE 0
Fraction(loaded, total) ==
  IF total > 0 THEN (loaded * FileChunks) \div total ELSE 0


\* controller.abort(): raises the signal once and runs its listeners.
AbortXhr(c) ==
  IF c = 0 \/ aborted[c] THEN xhr ELSE [xhr EXCEPT ![c] = SignalListener(xhr[c])]
AbortFlag(c) ==
  IF c = 0 THEN aborted ELSE [aborted EXCEPT ![c] = TRUE]
\* The signals raised before their call has settled, after abort() of c.
AbortTime(c) ==
  IF c # 0 /\ ~aborted[c] /\ xhr[c].readyState # "released"
               /\ xhr[c].outcome = Pending
  THEN raisedEarly \cup {c} ELSE raisedEarly
\* The continuation of a promise that has just been settled is queued.
Queue(old, new) ==
  LET S == {f \in Flows : old[f].outcome = Pending /\ new[f].outcome # Pending}
  IN  IF S = {} THEN microtasks ELSE microtasks \o <<CHOOSE f \in S : TRUE>>

\* ------------------------------------------------------------ api client
\* initRecordingResponseSchema.parse(data)
\* (variant: uploadUrl is not checked)
SchemaOkLax(data) ==
  /\ data.recordingId.t = "string"
  /\ data.headers.t \in {"absent", "record"}
SchemaOk(data) ==
  /\ data.recordingId.t = "string"
  /\ data.uploadUrl.t = "string" /\ data.uploadUrl.v \in AbsoluteUrls
  /\ data.headers.t \in {"absent", "record"}

\* handleError(response): throws Error(`Request failed (${status})...`)
\* with `: ${text}` appended when response.text() gives a non-empty text;
\* a body that cannot be read is ignored.
\* (variant: the text is left out)
HandleErrorNoText(status, text) == MsgN("Request failed", status)
HandleError(status, text) ==
  [text |-> "Request failed", code |-> status,
   detail |-> IF text = Unreadable THEN "" ELSE text]

\* response.ok of fetch
ResponseOk(status) == status \in 200..299

\* An api call rejects with an error, or resolves with the parsed value.
Failure(err) == [ok |-> FALSE, err |-> err]
Success(value) == [ok |-> TRUE, value |-> value]
\* startTimeRef.current === null; Date.now() is never 0.
NoTime == 0
\* The camera is not recording and holds no callback.
NoCamera == [phase |-> "idle", markers |-> <<>>]
\* No client call taken alone has been made.
NoApiCall == [fn |-> "none", reply |-> NoReply, result |-> Failure(NoError)]

\* markUploadComplete(recordingId), given what the request ends with
\* (variant: the body of a 2xx response is parsed like the init response)
MarkUploadCompleteParsing(reply) ==
  IF reply.kind = "reject" THEN Failure(PlatformError)
  ELSE IF ~ResponseOk(reply.status)
       THEN Failure(HandleError(reply.status, reply.text))
  ELSE IF ~SchemaOk(reply.body) THEN Failure(Msg("ZodError"))
  ELSE Success("void")
MarkUploadComplete(reply) ==
  IF reply.kind = "reject" THEN Failure(PlatformError)
  ELSE IF ~ResponseOk(reply.status)
       THEN Failure(HandleError(reply.status, reply.text))
  ELSE Success("void")

\* initRecording(payload), given what the request ends with
InitRecording(reply) ==
  IF reply.kind = "reject" THEN Failure(PlatformError)
  ELSE IF ~ResponseOk(reply.status)
       THEN Failure(HandleError(reply.status, reply.text))
  ELSE IF ~SchemaOk(reply.body) THEN Failure(Msg("ZodError"))
  ELSE Success([recordingId |-> reply.body.recordingId.v,
                uploadUrl |-> reply.body.uploadUrl.v])

\* ------------------------------------------------------------------ Init
Init ==
  /\ videoUri \in VideoUris
  /\ mounted = TRUE
  /\ state = "idle"
  /\ error = NoError
  /\ progress = 0
  /\ recordingId = NullId
  /\ abortRef = 0
  /\ pc = [f \in Flows |-> "idle"]
  /\ initResponse = [f \in Flows |-> NoResponse]
  /\ aborted = [f \in Flows |-> FALSE]
  /\ xhr = [f \in Flows |-> NoXhr]
  /\ microtasks = <<>>
  /\ calls = [f \in Flows |-> NoCalls]
  /\ handoff = {}
  /\ owner = 0
  /\ cancelled = {}
  /\ cleanupAt = [f \in Flows |-> "none"]
  /\ raisedEarly = {}
  /\ initReply = NoReply
  /\ fileInfo = NoInfo
  /\ completeReply = NoReply
  /\ resultId = ""
  /\ observer = "unmounted"
  /\ statusData = NoData
  /\ isFetching = FALSE
  /\ isError = FALSE
  /\ timer = FALSE
  /\ requests = 0
  /\ received = <<>>
  /\ delivered = <<>>
  /\ apiCall = NoApiCall
  /\ isRecording = FALSE
  /\ markers = <<>>
  /\ recordingError = "null"
  /\ startTimeRef = NoTime
  /\ now = 1
  /\ camera = NoCamera
  /\ tagged = <<>>
  /\ pushed = <<>>

\* The next invocation of startUploadFlow.
NextFlow == 1 + Cardinality({f \in Flows : pc[f] # "idle"})
Active(f) == pc[f] \in {"info", "init", "upload", "complete"}
\* The UploadState an invocation suspended at p has set.
StateOf(p) ==
  CASE p \in {"info", "init"} -> "init"
    [] p = "upload" -> "uploading"
    [] p = "complete" -> "notifying"

\* ------------------------------------------------------- startUploadFlow
\* The catch block: setError(err.message); setState('error').
Catch(f, err) ==
  /\ error' = err
  /\ state' = "error"
  /\ owner' = f
  /\ pc' = [pc EXCEPT ![f] = "end"]
  /\ cleanupAt' = [cleanupAt EXCEPT ![f] = "none"]

\* startUploadFlow up to its first await.
\* (variant: the progress is left as it is)
StartUploadFlowNoReset(f) ==
  /\ f \in Flows
  /\ f = NextFlow
  /\ owner' = f
  /\ IF videoUri = ""
     THEN /\ error' = Msg("Missing video to upload.")
          /\ state' = "error"
          /\ pc' = [pc EXCEPT ![f] = "end"]
          /\ UNCHANGED progress
     ELSE /\ error' = NoError
          /\ UNCHANGED progress
          /\ state' = "init"
          /\ pc' = [pc EXCEPT ![f] = "info"]
StartUploadFlow(f) ==
  /\ f \in Flows
  /\ f = NextFlow
  /\ owner' = f
  /\ IF videoUri = ""
     THEN /\ error' = Msg("Missing video to upload.")
          /\ state' = "error"
          /\ pc' = [pc EXCEPT ![f] = "end"]
          /\ UNCHANGED progress
     ELSE /\ error' = NoError
          /\ progress' = 0
          /\ state' = "init"
          /\ pc' = [pc EXCEPT ![f] = "info"]

\* The effect's cleanup: abortRef.current?.abort().
Cleanup ==
  /\ xhr' = AbortXhr(abortRef)
  /\ aborted' = AbortFlag(abortRef)
  /\ microtasks' = Queue(xhr, xhr')
  /\ cleanupAt' = [f \in Flows |->
                     IF cleanupAt[f] = "none" /\ pc[f] \in {"info", "init", "complete"}
                     THEN StateOf(pc[f])
                     ELSE cleanupAt[f]]

\* The effect runs after the first render.
Mount ==
  /\ mounted /\ pc[1] = "idle"
  /\ StartUploadFlow(1)
  /\ UNCHANGED <<resultVars, initReply, fileInfo, completeReply, apartVars>>
  /\ UNCHANGED <<videoUri, mounted, recordingId, abortRef, initResponse,
                 aborted, xhr, microtasks, calls, handoff, cancelled,
                 cleanupAt, raisedEarly>>

\* A dependency of the effect changed: cleanup, then the effect again.
EffectRerun ==
  /\ mounted /\ pc[1] # "idle" /\ microtasks = <<>>
  /\ Cleanup
  /\ StartUploadFlow(NextFlow)
  /\ UNCHANGED <<resultVars, initReply, fileInfo, completeReply, apartVars>>
  /\ UNCHANGED <<videoUri, mounted, recordingId, abortRef, initResponse,
                 calls, handoff, cancelled, raisedEarly>>

\* The screen is removed: cleanup.
Unmount ==
  /\ mounted /\ pc[1] # "idle" /\ microtasks = <<>>
  /\ Cleanup
  /\ mounted' = FALSE
  /\ UNCHANGED <<resultVars, initReply, fileInfo, completeReply, apartVars>>
  /\ UNCHANGED <<videoUri, state, error, progress, recordingId, abortRef, pc,
                 initResponse, calls, handoff, owner, cancelled, raisedEarly>>

\* The Retry button, rendered when state === 'error' and videoUri is set.
Retry ==
  /\ mounted /\ state = "error" /\ videoUri # "" /\ microtasks = <<>>
  /\ StartUploadFlow(NextFlow)
  /\ UNCHANGED <<resultVars, initReply, fileInfo, completeReply, apartVars>>
  /\ UNCHANGED <<videoUri, mounted, recordingId, abortRef, initResponse,
                 aborted, xhr, microtasks, calls, handoff, cancelled,
                 cleanupAt, raisedEarly>>

\* The Cancel Upload button, rendered when state === 'uploading'.
HandleCancel ==
  /\ mounted /\ state = "uploading" /\ microtasks = <<>>
  /\ xhr' = AbortXhr(abortRef)
  /\ aborted' = AbortFlag(abortRef)
  /\ microtasks' = Queue(xhr, xhr')
  /\ error' = Msg("Upload cancelled.")
  /\ state' = "error"
  /\ cancelled' = cancelled \cup {owner}
  /\ owner' = 0
  /\ UNCHANGED <<resultVars, initReply, fileInfo, completeReply, apartVars>>
  /\ UNCHANGED <<videoUri, mounted, progress, recordingId, abortRef, pc,
                 initResponse, calls, handoff, cleanupAt, raisedEarly>>

\* FileSystem.getInfoAsync settles; on success initMutate is called.
GetInfoStep(f, info) ==
  /\ pc[f] = "info" /\ microtasks = <<>>
  /\ IF info.thrown
     THEN /\ Catch(f, PlatformError)
          /\ UNCHANGED calls
     ELSE IF ~info.exists \/ Falsy(info.size)
     THEN /\ Catch(f, Msg("Could not read video file."))
          /\ UNCHANGED calls
     ELSE /\ pc' = [pc EXCEPT ![f] = "init"]
          /\ calls' = [calls EXCEPT ![f].init = @ + 1,
                                    ![f].sizeBytes = info.size.v]
          /\ UNCHANGED <<state, error, owner, cleanupAt>>
  /\ UNCHANGED <<resultVars, initReply, completeReply, apartVars>>
  /\ UNCHANGED <<videoUri, mounted, progress, recordingId, abortRef,
                 initResponse, aborted, xhr, microtasks, handoff, cancelled,
                 raisedEarly>>

GetInfoDone(f) ==
  \E info \in InfoOutcomes : GetInfoStep(f, info) /\ UNCHANGED fileInfo

\* initRecording settles with the outcome of `reply`; on success the transfer
\* is started.
InitStep(f, reply) ==
  /\ pc[f] = "init" /\ microtasks = <<>>
  /\ LET r == InitRecording(reply) IN
       IF ~r.ok
       THEN /\ Catch(f, r.err)
            /\ UNCHANGED <<recordingId, abortRef, initResponse, aborted,
                           xhr, microtasks, calls>>
       ELSE \E sendThrows \in BOOLEAN, total \in Totals :
            /\ initResponse' = [initResponse EXCEPT ![f] = r.value]
            /\ recordingId' = r.value.recordingId
            /\ state' = "uploading"
            /\ owner' = f
            /\ abortRef' = f
            /\ aborted' = [aborted EXCEPT ![f] = FALSE]
            /\ xhr' = [xhr EXCEPT ![f] = UploadVideo(sendThrows, total)]
            /\ microtasks' = Queue(xhr, xhr')
            /\ calls' = [calls EXCEPT ![f].upload = @ + 1]
            /\ pc' = [pc EXCEPT ![f] = "upload"]
            /\ UNCHANGED <<error, cleanupAt>>
  /\ UNCHANGED <<resultVars, fileInfo, completeReply, apartVars>>
  /\ UNCHANGED <<videoUri, mounted, progress, handoff, cancelled, raisedEarly>>

InitDone(f) ==
  \E reply \in InitReplies : InitStep(f, reply) /\ UNCHANGED initReply

\* xhr.upload.onprogress: event.loaded of event.total parts are sent, never
\* fewer than before, and event.lengthComputable says whether event.total is
\* known, which it is for every event of a transfer or for none.
XhrProgress(f) ==
  /\ xhr[f].readyState = "sent" /\ microtasks = <<>>
  /\ \E loaded \in xhr[f].sent..FileChunks :
       LET total == xhr[f].total
           lengthComputable == total > 0
       IN
       /\ xhr' = [xhr EXCEPT ![f].sent = IF lengthComputable THEN loaded
                                         ELSE @]
       /\ progress' = IF lengthComputable THEN Fraction(loaded, total)
                      ELSE progress
  /\ UNCHANGED <<resultVars, initReply, fileInfo, completeReply, apartVars>>
  /\ UNCHANGED <<videoUri, mounted, state, error, recordingId, abortRef, pc,
                 initResponse, aborted, microtasks, calls, handoff, owner,
                 cancelled, cleanupAt, raisedEarly>>

\* The response arrives: readyState DONE, 'load'. A response of the 2xx
\* range answers a body that was sent whole, the last progress event (all
\* parts loaded) dispatched before 'load'; the parts loaded are followed
\* only where the total is known.
XhrLoad(f, codes) ==
  /\ xhr[f].readyState = "sent" /\ microtasks = <<>>
  /\ \E status \in codes :
       /\ status \in 200..299 => xhr[f].sent = xhr[f].total
       /\ xhr' = [xhr EXCEPT ![f] = OnLoad(Done(@, "load", status))]
  /\ microtasks' = Queue(xhr, xhr')
  /\ UNCHANGED <<resultVars, initReply, fileInfo, completeReply, apartVars>>
  /\ UNCHANGED <<videoUri, mounted, state, error, progress, recordingId,
                 abortRef, pc, initResponse, aborted, calls, handoff, owner,
                 cancelled, cleanupAt, raisedEarly>>

\* The transport fails: readyState DONE, 'error'.
XhrError(f) ==
  /\ xhr[f].readyState = "sent" /\ microtasks = <<>>
  /\ xhr' = [xhr EXCEPT ![f] = OnError(Done(@, "error", 0))]
  /\ microtasks' = Queue(xhr, xhr')
  /\ UNCHANGED <<resultVars, initReply, fileInfo, completeReply, apartVars>>
  /\ UNCHANGED <<videoUri, mounted, state, error, progress, recordingId,
                 abortRef, pc, initResponse, aborted, calls, handoff, owner,
                 cancelled, cleanupAt, raisedEarly>>

\* The invocation returns: its locals are dropped.
Return(f) ==
  /\ xhr' = [xhr EXCEPT ![f] = Released]
  /\ initResponse' = [initResponse EXCEPT ![f] = NoResponse]

\* initResponse.recordingId: the argument of completeMutate and the route
\* param (variant: the recordingId of the screen's state)
CompletionIdOfScreen(f) == recordingId
CompletionId(f) == initResponse[f].recordingId

\* (variant: a rejection of uploadVideo is swallowed and the flow goes on)
ResumeFlowUngated ==
  /\ microtasks # <<>>
  /\ LET f == Head(microtasks) IN
     /\ pc[f] = "upload"
     /\ microtasks' = Tail(microtasks)
     /\ state' = "notifying"
     /\ owner' = f
     /\ calls' = [calls EXCEPT ![f].complete = @ + 1]
     /\ pc' = [pc EXCEPT ![f] = "complete"]
     /\ UNCHANGED <<error, xhr, initResponse, cleanupAt>>
  /\ UNCHANGED <<resultVars, initReply, fileInfo, completeReply, apartVars>>
  /\ UNCHANGED <<videoUri, mounted, progress, recordingId, abortRef,
                 aborted, handoff, cancelled, raisedEarly>>

\* (variant: a transfer that failed otherwise than by abort is sent again)
ResumeFlowRetrying ==
  /\ microtasks # <<>>
  /\ LET f == Head(microtasks) IN
     /\ pc[f] = "upload"
     /\ IF xhr[f].outcome = Resolved
        THEN /\ state' = "notifying"
             /\ owner' = f
             /\ calls' = [calls EXCEPT ![f].complete = @ + 1,
                                       ![f].completeId = CompletionId(f)]
             /\ pc' = [pc EXCEPT ![f] = "complete"]
             /\ microtasks' = Tail(microtasks)
             /\ UNCHANGED <<error, xhr, initResponse, cleanupAt>>
        ELSE IF xhr[f].outcome.kind = "abort" \/ calls[f].upload > 1
        THEN /\ Catch(f, xhr[f].outcome.err)
             /\ Return(f)
             /\ microtasks' = Tail(microtasks)
             /\ UNCHANGED calls
        ELSE /\ xhr' = [xhr EXCEPT ![f] = UploadVideo(FALSE, FileChunks)]
             /\ calls' = [calls EXCEPT ![f].upload = @ + 1]
             /\ microtasks' = Tail(microtasks)
             /\ UNCHANGED <<state, error, owner, pc, initResponse, cleanupAt>>
  /\ UNCHANGED <<resultVars, initReply, fileInfo, completeReply, apartVars>>
  /\ UNCHANGED <<videoUri, mounted, progress, recordingId, abortRef,
                 aborted, handoff, cancelled, raisedEarly>>

\* startUploadFlow resumes after `await uploadVideo(...)`.
ResumeFlow ==
  /\ microtasks # <<>>
  /\ LET f == Head(microtasks) IN
     /\ pc[f] = "upload"
     /\ microtasks' = Tail(microtasks)
     /\ IF xhr[f].outcome = Resolved
        THEN /\ state' = "notifying"
             /\ owner' = f
             /\ calls' = [calls EXCEPT ![f].complete = @ + 1,
                                       ![f].completeId = CompletionId(f)]
             /\ pc' = [pc EXCEPT ![f] = "complete"]
             /\ UNCHANGED <<error, xhr, initResponse, cleanupAt>>
        ELSE /\ Catch(f, xhr[f].outcome.err)
             /\ Return(f)
             /\ UNCHANGED calls
  /\ UNCHANGED <<resultVars, initReply, fileInfo, completeReply, apartVars>>
  /\ UNCHANGED <<videoUri, mounted, progress, recordingId, abortRef,
                 aborted, handoff, cancelled, raisedEarly>>

\* markUploadComplete settles; on success router.replace('/result').
CompleteStep(f, reply) ==
  /\ pc[f] = "complete" /\ microtasks = <<>>
  /\ LET r == MarkUploadComplete(reply) IN
       IF r.ok
       THEN /\ state' = "done"
            /\ owner' = f
            /\ handoff' = handoff \cup {<<f, CompletionId(f)>>}
            /\ pc' = [pc EXCEPT ![f] = "end"]
            /\ cleanupAt' = [cleanupAt EXCEPT ![f] = "none"]
            /\ UNCHANGED error
       ELSE /\ Catch(f, r.err)
            /\ UNCHANGED handoff
  /\ Return(f)
  /\ calls' = [calls EXCEPT ![f].completeId = NullId]
  /\ UNCHANGED <<resultVars, initReply, fileInfo, apartVars>>
  /\ UNCHANGED <<videoUri, mounted, progress, recordingId, abortRef,
                 aborted, microtasks, cancelled, raisedEarly>>

CompleteDone(f) ==
  \E reply \in CompleteReplies :
    CompleteStep(f, reply) /\ UNCHANGED completeReply

Next ==
  \/ Mount
  \/ EffectRerun
  \/ Unmount
  \/ Retry
  \/ HandleCancel
  \/ \E f \in Flows : GetInfoDone(f)
  \/ \E f \in Flows : InitDone(f)
  \/ \E f \in Flows : XhrProgress(f)
  \/ \E f \in Flows : XhrLoad(f, Statuses)
  \/ \E f \in Flows : XhrError(f)
  \/ ResumeFlow
  \/ \E f \in Flows : CompleteDone(f)

Spec == Init /\ [][Next]_vars

\* The screen while it stays mounted and its effect runs once, when every
\* call a run awaits settles in the end: getInfoAsync,
\* the init request, the transfer (with 'load' or 'error'; an abort settles it
\* at once) and the completion request; and the continuation of a settled
\* uploadVideo promise, a microtask, runs.
TransferEnds(f) == XhrLoad(f, Statuses) \/ XhrError(f)
Fairness ==
  /\ WF_vars(ResumeFlow)
  /\ \A f \in Flows :
       /\ WF_vars(GetInfoDone(f))
       /\ WF_vars(InitDone(f))
       /\ WF_vars(TransferEnds(f))
       /\ WF_vars(CompleteDone(f))

LiveNext ==
  \/ Mount
  \/ Retry
  \/ HandleCancel
  \/ \E f \in Flows : GetInfoDone(f)
  \/ \E f \in Flows : InitDone(f)
  \/ \E f \in Flows : XhrProgress(f)
  \/ \E f \in Flows : XhrLoad(f, Statuses)
  \/ \E f \in Flows : XhrError(f)
  \/ ResumeFlow
  \/ \E f \in Flows : CompleteDone(f)

SpecLive == Init /\ [][LiveNext]_vars /\ Fairness

\* ------------------------------------------- the replies kept in view
\* The screen while it stays mounted and its effect runs once, with what the
\* init request ended with kept in `initReply` when initRecording settles,
\* what getInfoAsync ended with kept in `fileInfo`, and what the completion
\* request ended with kept in `completeReply`.
InitDoneSeen(f) ==
  \E reply \in InitReplies : InitStep(f, reply) /\ initReply' = reply
GetInfoDoneSeen(f) ==
  \E info \in InfoOutcomes : GetInfoStep(f, info) /\ fileInfo' = info
CompleteDoneSeen(f) ==
  \E reply \in CompleteReplies :
    CompleteStep(f, reply) /\ completeReply' = reply

SeenNext ==
  \/ Mount
  \/ Retry
  \/ HandleCancel
  \/ \E f \in Flows : GetInfoDoneSeen(f)
  \/ \E f \in Flows : InitDoneSeen(f)
  \/ \E f \in Flows : XhrProgress(f)
  \/ \E f \in Flows : XhrLoad(f, Statuses)
  \/ \E f \in Flows : XhrError(f)
  \/ ResumeFlow
  \/ \E f \in Flows : CompleteDoneSeen(f)

SpecSeen == Init /\ [][SeenNext]_vars

\* The mounted screen whose effect may run again while a run is under way, so
\* that runs overlap; the replies of the init and completion requests are
\* kept in view, and the transfers report no progress.
RerunNext ==
  \/ Mount
  \/ EffectRerun
  \/ Retry
  \/ HandleCancel
  \/ \E f \in Flows : GetInfoDone(f)
  \/ \E f \in Flows : InitDoneSeen(f)
  \/ \E f \in Flows : XhrLoad(f, Statuses)
  \/ \E f \in Flows : XhrError(f)
  \/ ResumeFlow
  \/ \E f \in Flows : CompleteDoneSeen(f)

SpecRerun == Init /\ [][RerunNext]_vars

\* ------------------------------------------------ uploadVideo taken alone
\* A caller other than the screen: it owns the signals, may raise one at any
\* time (before the call too), and awaits the promise.
screenVars ==
  <<resultVars, initReply, fileInfo, completeReply, apartVars, videoUri, mounted, state,
    error,
    recordingId, abortRef, pc,
    initResponse,
    calls, handoff, owner, cancelled, cleanupAt>>

\* uploadVideo({..., signal, onProgress})
TransferCall(f) ==
  /\ xhr[f].readyState = "unsent" /\ microtasks = <<>>
  /\ \E sendThrows \in BOOLEAN, total \in Totals :
       xhr' = [xhr EXCEPT ![f] = UploadVideo(sendThrows, total)]
  /\ microtasks' = Queue(xhr, xhr')
  /\ UNCHANGED <<screenVars, progress, aborted, raisedEarly>>

\* controller.abort() by the caller
RaiseSignal(f) ==
  /\ ~aborted[f] /\ microtasks = <<>>
  /\ xhr' = AbortXhr(f)
  /\ aborted' = AbortFlag(f)
  /\ raisedEarly' = AbortTime(f)
  /\ microtasks' = Queue(xhr, xhr')
  /\ UNCHANGED <<screenVars, progress>>

\* The caller's continuation of the settled promise runs.
Settled ==
  /\ microtasks # <<>>
  /\ microtasks' = Tail(microtasks)
  /\ UNCHANGED <<screenVars, progress, aborted, xhr, raisedEarly>>

TransferNext ==
  \/ \E f \in Flows : TransferCall(f)
  \/ \E f \in Flows : RaiseSignal(f)
  \/ \E f \in Flows : XhrProgress(f)
  \/ \E f \in Flows : XhrLoad(f, TransferStatuses)
  \/ \E f \in Flows : XhrError(f)
  \/ Settled

SpecTransfer == Init /\ [][TransferNext]_vars

\* A transport that goes on dispatching events to the handlers of a request
\* that is DONE, or whose send() threw: a further 'load' (with any status),
\* 'error' or 'abort'.
LateStatuses == {200, 500}
LateLoad(f) ==
  /\ xhr[f].readyState \in {"opened", "done"} /\ microtasks = <<>>
  /\ \E status \in LateStatuses :
       xhr' = [xhr EXCEPT ![f] = OnLoad(Done(@, "load", status))]
  /\ microtasks' = Queue(xhr, xhr')
  /\ UNCHANGED <<screenVars, progress, aborted, raisedEarly>>

LateError(f) ==
  /\ xhr[f].readyState \in {"opened", "done"} /\ microtasks = <<>>
  /\ xhr' = [xhr EXCEPT ![f] = OnError(Done(@, "error", 0))]
  /\ microtasks' = Queue(xhr, xhr')
  /\ UNCHANGED <<screenVars, progress, aborted, raisedEarly>>

LateAbort(f) ==
  /\ xhr[f].readyState \in {"opened", "done"} /\ microtasks = <<>>
  /\ xhr' = [xhr EXCEPT ![f] = OnAbort(Done(@, "abort", 0))]
  /\ microtasks' = Queue(xhr, xhr')
  /\ UNCHANGED <<screenVars, progress, aborted, raisedEarly>>

EventsNext ==
  \/ \E f \in Flows : TransferCall(f)
  \/ \E f \in Flows : RaiseSignal(f)
  \/ \E f \in Flows : XhrLoad(f, LateStatuses)
  \/ \E f \in Flows : XhrError(f)
  \/ \E f \in Flows : LateLoad(f)
  \/ \E f \in Flows : LateError(f)
  \/ \E f \in Flows : LateAbort(f)
  \/ Settled

SpecEvents == Init /\ [][EventsNext]_vars

\* ------------------------------------------------------------ ResultScreen
\* The variables of the upload screen, which the result screen leaves alone.
uploadVars ==
  <<videoUri, mounted, state, error, progress, recordingId, abortRef, pc,
    initResponse, aborted, xhr, microtasks, calls, handoff, owner,
    cancelled, cleanupAt, raisedEarly, initReply, fileInfo, completeReply, apartVars>>

\* recordingStatusSchema.parse(data): each field on its own
\* (variant: error and steps are not checked)
RecordingStatusSchemaOkLax(body) ==
  /\ body.recordingId.t = "string"
  /\ body.status.t = "string" /\ body.status.v \in StatusEnum
RecordingStatusSchemaOk(body) ==
  /\ body.recordingId.t = "string"
  /\ body.status.t = "string" /\ body.status.v \in StatusEnum
  /\ body.error.t \in {"absent", "string"}
  /\ body.steps.t = "absent" \/ body.steps = JSteps(TRUE)

\* The value recordingStatusSchema.parse returns for a body it accepts.
RecordingStatusOf(body) ==
  [recordingId |-> body.recordingId.v, status |-> body.status.v,
   error |-> body.error, steps |-> body.steps]

\* fetchRecordingStatus(recordingId), given what the request ends with
FetchRecordingStatus(reply) ==
  IF reply.kind = "reject" THEN Failure(PlatformError)
  ELSE IF ~ResponseOk(reply.status)
       THEN Failure(HandleError(reply.status, reply.text))
  ELSE IF reply.body = NotJson THEN Failure(PlatformError)
  ELSE IF ~RecordingStatusSchemaOk(reply.body) THEN Failure(Msg("ZodError"))
  ELSE Success(RecordingStatusOf(reply.body))

\* refetchInterval: TRUE for SETTINGS.pollIntervalMs, FALSE for false
\* (variants: only COMPLETED ends the polling; no interval without data)
RefetchIntervalNoData(queryData) ==
  IF queryData = NoData THEN FALSE
  ELSE IF queryData.status = "COMPLETED" \/ queryData.status = "FAILED"
       THEN FALSE
       ELSE TRUE
RefetchIntervalCompletedOnly(queryData) ==
  IF queryData = NoData THEN TRUE
  ELSE queryData.status # "COMPLETED"
RefetchInterval(queryData) ==
  IF queryData = NoData THEN TRUE
  ELSE IF queryData.status = "COMPLETED" \/ queryData.status = "FAILED"
       THEN FALSE
       ELSE TRUE

\* enabled: !!recordingId
Enabled(id) == id # ""

\* The query starts a status request; a query that has no data yet leaves the
\* error state while it fetches.
StartFetch ==
  /\ requests' = requests + 1
  /\ isFetching' = TRUE
  /\ isError' = IF statusData = NoData THEN FALSE ELSE isError

\* The screen is mounted with its route params: the query subscribes, fetches
\* at once when enabled, and arms the interval.
ResultMount ==
  /\ observer = "unmounted"
  /\ observer' = "subscribed"
  /\ \E id \in ResultIds :
       /\ resultId' = id
       /\ IF Enabled(id)
          THEN StartFetch /\ timer' = RefetchInterval(statusData)
          ELSE UNCHANGED <<requests, isFetching, isError, timer>>
  /\ UNCHANGED <<uploadVars, statusData, received, delivered>>

\* The interval elapses. A tick that finds a request in flight joins it and
\* issues none.
Tick ==
  /\ observer = "subscribed" /\ timer /\ ~isFetching
  /\ requests < MaxPolls
  /\ StartFetch
  /\ UNCHANGED <<uploadVars, resultId, observer, statusData, timer, received,
                 delivered>>

\* The screen renders the data of a result: statusCopy[data.status], the
\* steps, the error. (variant: a status equal to the one shown is skipped)
RenderChanges(shown, value) ==
  IF shown # <<>> /\ shown[Len(shown)] = value.status
  THEN shown
  ELSE Append(shown, value.status)
Render(shown, value) == Append(shown, value.status)

\* The request in flight ends. A success is rendered and the interval is
\* computed anew from the data; a failure is retried by the query or puts it
\* in the error state, the data kept. A query nobody observes any more
\* delivers nothing and retries nothing.
StatusReply(reply) ==
  /\ isFetching
  /\ LET r == FetchRecordingStatus(reply) IN
       /\ received' =
            Append(received, IF r.ok THEN r.value.status ELSE "error")
       /\ IF observer # "subscribed"
          THEN /\ isFetching' = FALSE
               /\ UNCHANGED <<statusData, isError, timer, requests,
                              delivered>>
          ELSE IF r.ok
          THEN /\ statusData' = r.value
               /\ isError' = FALSE
               /\ isFetching' = FALSE
               /\ delivered' = Render(delivered, r.value)
               /\ timer' = RefetchInterval(r.value)
               /\ UNCHANGED requests
          ELSE \/ /\ requests < MaxPolls
                  /\ requests' = requests + 1
                  /\ UNCHANGED <<statusData, isError, isFetching, timer,
                                 delivered>>
               \/ /\ isError' = TRUE
                  /\ isFetching' = FALSE
                  /\ timer' = RefetchInterval(statusData)
                  /\ UNCHANGED <<statusData, requests, delivered>>
  /\ UNCHANGED <<uploadVars, resultId, observer>>

\* Retry of the error view: refetch(), which drops a request in flight.
Refetch ==
  /\ observer = "subscribed" /\ Enabled(resultId) /\ isError
  /\ requests < MaxPolls
  /\ StartFetch
  /\ UNCHANGED <<uploadVars, resultId, observer, statusData, timer, received,
                 delivered>>

\* The screen is left: the query unsubscribes and clears its interval.
\* (variant: the interval is left armed)
ResultUnmountArmed ==
  /\ observer = "subscribed"
  /\ observer' = "unsubscribed"
  /\ UNCHANGED <<uploadVars, resultId, statusData, isFetching, isError, timer,
                 requests, received, delivered>>
ResultUnmount ==
  /\ observer = "subscribed"
  /\ observer' = "unsubscribed"
  /\ timer' = FALSE
  /\ UNCHANGED <<uploadVars, resultId, statusData, isFetching, isError, requests,
                 received, delivered>>

PollNext ==
  \/ ResultMount
  \/ Tick
  \/ \E reply \in StatusReplies : StatusReply(reply)
  \/ Refetch
  \/ ResultUnmount

SpecPoll == Init /\ [][PollNext]_vars

\* ------------------------------------------------- the client taken alone
\* The three calls of the api client, each applied to what its request ends
\* with; a response outside the 2xx range may carry any body.
NonOkStatuses == {199, 300, 404, 500}
\* What response.text() gives for the body of such a response.
BodyTexts == {"", "oops", "{json}", Unreadable}
ApiFunctions == {"init", "complete", "status"}
\* The JSON body "{json}" stands for: one the schema of the call accepts.
JsonBody(fn) ==
  CASE fn = "init" ->
         [recordingId |-> JString("r1"), uploadUrl |-> JString("https://x/up"),
          headers |-> JAbsent]
    [] fn = "status" ->
         [recordingId |-> JString("r1"), status |-> JString("COMPLETED"),
          error |-> JAbsent, steps |-> JSteps(TRUE)]
    [] fn = "complete" -> NoBody
NoJsonBody(fn) == IF fn = "status" THEN NotJson ELSE NoBody
ErrorReplies(fn) ==
  {[kind |-> "response", status |-> s, text |-> t,
    body |-> IF t = "{json}" THEN JsonBody(fn) ELSE NoJsonBody(fn)] :
     s \in NonOkStatuses, t \in BodyTexts}
ApiReplies(fn) ==
  ErrorReplies(fn) \cup
    CASE fn = "init" -> InitReplies
      [] fn = "complete" -> CompleteReplies
      [] fn = "status" -> StatusReplies

ApiOutcome(fn, reply) ==
  CASE fn = "init" -> InitRecording(reply)
    [] fn = "complete" -> MarkUploadComplete(reply)
    [] fn = "status" -> FetchRecordingStatus(reply)

\* The variables of the two screens of the upload and its result.
uploadKept ==
  <<resultVars, initReply, fileInfo, completeReply, videoUri, mounted, state,
    error, progress, recordingId, abortRef, pc, initResponse, aborted,
    xhr, microtasks, calls, handoff, owner, cancelled, cleanupAt, raisedEarly>>

\* One call of the client settles.
ApiCall(fn, reply) ==
  /\ apiCall' = [fn |-> fn, reply |-> reply, result |-> ApiOutcome(fn, reply)]
  /\ UNCHANGED <<uploadKept, recordVars>>

ClientNext == \E fn \in ApiFunctions : \E reply \in ApiReplies(fn) :
                ApiCall(fn, reply)

SpecClient == Init /\ [][ClientNext]_vars

\* ------------------------------------------------------------ RecordScreen
\* The screen with both permissions granted and the camera mounted. Time is
\* counted in seconds. The camera keeps the callbacks startRecording() gave
\* it: functions of the render in which Start was pressed, so the `markers`
\* they read is the state of that render.
MaxClock == 3
MaxMarks == 2
MaxRecordings == 2
MaxDurationSec == 2
VideoResults == {"", "file:///rec.mp4"}

Min(a, b) == IF a < b THEN a ELSE b
\* Math.min(SETTINGS.maxDurationSec, Math.floor((Date.now() - start) / 1000))
SecondsSince(start) == Min(MaxDurationSec, now - start)
\* JSON.stringify(markers): the text of an array of numbers
Stringify(ms) == [json |-> "array", items |-> ms]
\* `${durationSec}`
NumberText(n) == [text |-> "number", of |-> n]

\* Date.now() moves on.
ClockTick ==
  /\ now < MaxClock
  /\ now' = now + 1
  /\ UNCHANGED <<isRecording, markers, recordingError, startTimeRef, camera,
                 tagged, pushed>>
  /\ UNCHANGED <<uploadKept, apiCall>>

\* Start Recording, rendered while !isRecording.
StartRecording ==
  /\ ~isRecording /\ Len(pushed) < MaxRecordings
  /\ recordingError' = "null"
  /\ markers' = <<>>
  /\ startTimeRef' = now
  /\ isRecording' = TRUE
  /\ camera' = [phase |-> "recording", markers |-> markers]
  /\ tagged' = <<>>
  /\ UNCHANGED <<now, pushed>>
  /\ UNCHANGED <<uploadKept, apiCall>>

\* Mark Step, enabled while isRecording.
MarkStep ==
  /\ isRecording /\ startTimeRef # NoTime /\ Len(markers) < MaxMarks
  /\ markers' = Append(markers, SecondsSince(startTimeRef))
  /\ tagged' = Append(tagged, SecondsSince(startTimeRef))
  /\ UNCHANGED <<isRecording, recordingError, startTimeRef, now, camera,
                 pushed>>
  /\ UNCHANGED <<uploadKept, apiCall>>

\* Stop, rendered while isRecording.
StopRecording ==
  /\ isRecording /\ camera.phase = "recording"
  /\ camera' = [camera EXCEPT !.phase = "stopping"]
  /\ UNCHANGED <<isRecording, markers, recordingError, startTimeRef, now,
                 tagged, pushed>>
  /\ UNCHANGED <<uploadKept, apiCall>>

\* The camera calls onRecordingFinished(video), after Stop or at maxDuration.
HandleRecordingFinished ==
  /\ camera.phase # "idle"
  /\ \E uri \in VideoResults :
       LET durationSec == IF startTimeRef # NoTime
                          THEN SecondsSince(startTimeRef) ELSE 0
       IN
       /\ isRecording' = FALSE
       /\ startTimeRef' = NoTime
       /\ IF uri = ""
          THEN /\ recordingError' = "No video captured. Please try again."
               /\ UNCHANGED pushed
          ELSE /\ pushed' = Append(pushed,
                               [uri |-> uri,
                                duration |-> NumberText(durationSec),
                                markers |-> Stringify(camera.markers)])
               /\ UNCHANGED recordingError
  /\ camera' = NoCamera
  /\ UNCHANGED <<markers, now, tagged>>
  /\ UNCHANGED <<uploadKept, apiCall>>

\* The camera calls onRecordingError, or startRecording() rejects.
HandleRecordingError ==
  /\ camera.phase # "idle"
  /\ isRecording' = FALSE
  /\ startTimeRef' = NoTime
  /\ recordingError' = "Recording failed. Please try again."
  /\ camera' = NoCamera
  /\ UNCHANGED <<markers, now, tagged, pushed>>
  /\ UNCHANGED <<uploadKept, apiCall>>

RecordNext ==
  \/ ClockTick
  \/ StartRecording
  \/ MarkStep
  \/ StopRecording
  \/ HandleRecordingFinished
  \/ HandleRecordingError

SpecRecord == Init /\ [][RecordNext]_vars


\* ================================================================ claims
TwoXX == 200..299
InitInFlight(f) == pc[f] = "init"
TransferInFlight(f) == xhr[f].readyState = "sent"
CompleteInFlight(f) == pc[f] = "complete"
InFlight(f) ==
  (IF InitInFlight(f) THEN 1 ELSE 0) + (IF TransferInFlight(f) THEN 1 ELSE 0)
    + (IF CompleteInFlight(f) THEN 1 ELSE 0)

\* C1: within one run the transfer is started only after that run's init
\* request has succeeded, the completion notification is sent only after that
\* run's transfer has succeeded (a 'load' with a 2xx status), and no two of
\* the three calls of a run are in flight at the same time.
C1_Sequential ==
  \A f \in Flows :
    /\ calls[f].upload <= calls[f].init
    /\ calls[f].complete <= calls[f].upload
    /\ pc[f] = "upload" =>
         calls[f].init = 1 /\ initResponse[f] # NoResponse
    /\ pc[f] = "complete" =>
         /\ calls[f].upload = 1 /\ initResponse[f] # NoResponse
         /\ xhr[f].readyState = "done" /\ xhr[f].event = "load"
         /\ xhr[f].status \in TwoXX
    /\ InFlight(f) <= 1

C1_Witness ==
  \E f \in Flows : pc[f] = "end" /\ calls[f].complete = 1 /\ <<f, "r1">> \in handoff

\* C2: when Cancel is pressed while the screen shows 'uploading', the attempt
\* that put the screen into 'uploading' never sends a completion notification.
C2_NoNotifyAfterCancel ==
  /\ 0 \notin cancelled
  /\ \A f \in cancelled : calls[f].complete = 0 /\ pc[f] \in {"upload", "end"}

C2_Witness ==
  \E f \in cancelled : pc[f] = "end" /\ calls[f].upload = 1 /\ aborted[f]

\* C3: once a cleanup (unmount, effect re-run) has run while a run was in
\* 'init' or 'notifying', that run issues no further network call and no
\* hand-off to the result screen.
C3_ShortCircuit ==
  [][\A f \in Flows :
       cleanupAt[f] # "none" =>
         /\ calls'[f] = calls[f]
         /\ \A h \in handoff' \ handoff : h[1] # f]_vars

\* C4: an invocation of the flow issues each of the three calls at most once,
\* in the order init, upload, complete; an invocation that has ended issues
\* nothing more, so that a failed step is attempted again only by a new
\* invocation, which starts with its own init request.
C4_AtMostOnce ==
  [][\A f \in Flows :
       /\ calls'[f].init <= 1 /\ calls'[f].upload <= 1 /\ calls'[f].complete <= 1
       /\ calls'[f].upload <= calls'[f].init
       /\ calls'[f].complete <= calls'[f].upload
       /\ pc[f] = "end" => pc'[f] = "end" /\ calls'[f] = calls[f]
       /\ pc[f] = "idle" => calls[f] = NoCalls]_vars

C4_Witness ==
  \E f, g \in Flows :
    /\ f < g /\ pc[f] = "end" /\ calls[f].upload = 1 /\ calls[f].complete = 0
    /\ state = "uploading" /\ owner = g /\ calls[g].init = 1

\* C5: the lifecycle state changes only along idle->init, init->uploading,
\* init->error, uploading->notifying, uploading->error (failed or cancelled),
\* notifying->done, notifying->error and, by a restart, error->init.
SpecTransitions ==
  {<<"idle", "init">>, <<"init", "uploading">>, <<"init", "error">>,
   <<"uploading", "notifying">>, <<"uploading", "error">>,
   <<"notifying", "done">>, <<"notifying", "error">>, <<"error", "init">>}
C5_Transitions ==
  [][state' # state => <<state, state'>> \in SpecTransitions]_vars

\* C6: after a user cancellation during upload the attempt is not shown as an
\* error and no Retry is offered.
ErrorShown == error # NoError
RetryOffered == mounted /\ state = "error" /\ videoUri # ""
C6_CancelledDistinct ==
  \A f \in cancelled : owner \in {0, f} => ~ErrorShown /\ ~RetryOffered

\* C7: at most one invocation of the flow, and at most one transfer, is in
\* progress at any moment.
C7_SingleFlow ==
  /\ Cardinality({f \in Flows : Active(f)}) <= 1
  /\ Cardinality({f \in Flows : TransferInFlight(f)}) <= 1

\* C8: a call of uploadVideo whose signal was raised before the call settled
\* (before the call began included) ends rejected with the AbortError.
C8_AbortWins ==
  \A f \in raisedEarly :
    xhr[f].outcome # Pending => xhr[f].outcome.kind = "abort"

\* C9: uploadVideo resolves exactly when the endpoint answered with a status
\* in 200..299; any other status N rejects with an error naming N; a
\* transport failure rejects with the network error, which is none of those.
C9_Outcome ==
  \A f \in Flows :
    xhr[f].outcome # Pending =>
      /\ xhr[f].outcome = Resolved <=>
           (xhr[f].event = "load" /\ xhr[f].status \in TwoXX)
      /\ (xhr[f].event = "load" /\ xhr[f].status \notin TwoXX) =>
           /\ xhr[f].outcome.kind = "status"
           /\ xhr[f].outcome.err = MsgN("Upload failed with status", xhr[f].status)
      /\ xhr[f].event = "error" =>
           /\ xhr[f].outcome.kind = "network"
           /\ xhr[f].outcome.err.text # "Upload failed with status"

C9_Witness ==
  \E f, g \in Flows :
    /\ xhr[f].outcome = Resolved /\ xhr[f].status = 299
    /\ xhr[g].outcome.kind = "status" /\ xhr[g].status = 300

\* C10: a run whose transfer was answered with a non-2xx status N goes, with
\* its next step, to 'error' with the error naming N, having sent no
\* completion notification.
C10_Rejected ==
  [][\A f \in Flows :
       (pc[f] = "upload" /\ xhr[f].event = "load" /\ xhr[f].status \notin TwoXX) =>
         /\ pc'[f] = "end"
         /\ state' = "error"
         /\ error' = MsgN("Upload failed with status", xhr[f].status)
         /\ calls'[f].complete = 0]_vars

C10_Witness ==
  \E f \in Flows :
    /\ pc[f] = "end" /\ owner = f /\ state = "error"
    /\ error = MsgN("Upload failed with status", 500)
    /\ calls[f].init = 1 /\ calls[f].upload = 1 /\ calls[f].complete = 0


\* ------------------------------------------------------- the status poller
Terminal == {"COMPLETED", "FAILED"}
TerminalReceived == \E i \in 1..Len(received) : received[i] \in Terminal

\* C11: once a status response with status COMPLETED or FAILED has been
\* received, no status request is in flight, none is scheduled (the interval
\* is not armed) and none is issued by any later step.
C11_StopsAtTerminal ==
  [][TerminalReceived => ~timer /\ ~isFetching /\ requests' = requests]_vars
\* A terminal status arrived after earlier polls, the screen still mounted.
C11_Witness ==
  /\ observer = "subscribed" /\ Len(received) >= 3
  /\ received[Len(received)] = "FAILED"

\* C12: while the screen is subscribed with a recording id and no terminal
\* status has been received, polling is alive whatever failed before: a
\* status request is in flight, or the armed interval issues one at its next
\* tick.
C12_FailureKeepsPolling ==
  (/\ observer = "subscribed" /\ Enabled(resultId)
   /\ ~TerminalReceived /\ requests < MaxPolls)
    => isFetching \/ (timer /\ ENABLED Tick)
\* A request failed, a later one brought the terminal status to the screen.
C12_Witness ==
  /\ \E i \in 1..Len(received) : received[i] = "error"
  /\ Len(delivered) >= 1 /\ delivered[Len(delivered)] = "COMPLETED"
  /\ received[Len(received)] = "COMPLETED"
  /\ statusData.status = "COMPLETED"

\* C13: once the screen has unsubscribed, no step renders a status or changes
\* what the screen holds, no further status request is issued and the
\* interval is not armed, also when the response of a request that was in
\* flight arrives afterwards.
C13_NothingAfterCancel ==
  [][observer = "unsubscribed" =>
       /\ delivered' = delivered /\ statusData' = statusData
       /\ isError' = isError
       /\ requests' = requests /\ ~timer /\ ~timer']_vars
\* A status response arrived after the screen was left, and was not rendered.
C13_Witness ==
  /\ observer = "unsubscribed" /\ ~isFetching
  /\ Len(received) >= 2 /\ received[Len(received)] = "COMPLETED"
  /\ Len(delivered) = Len(received) - 1
  /\ statusData.status = "PROCESSING"

Statuses4 == <<"CREATED", "PROCESSING", "PROCESSING", "COMPLETED">>
\* C14: while the screen is subscribed, the statuses it has rendered are
\* exactly the successful status responses received, in the order received,
\* non-terminal ones included; when the responses were CREATED, PROCESSING,
\* PROCESSING, COMPLETED, four requests were issued, those four statuses
\* were rendered in that order, and polling has stopped.
C14_EveryStatusDelivered ==
  observer = "subscribed" =>
    /\ delivered = SelectSeq(received, LAMBDA o : o # "error")
    /\ received = Statuses4 =>
         requests = 4 /\ delivered = Statuses4 /\ ~timer /\ ~isFetching
\* The four responses of the example have arrived.
C14_Witness ==
  observer = "subscribed" /\ received = Statuses4 /\ delivered = Statuses4


\* ------------------------------------------------- the init response
\* C15: every init response an invocation holds after initRecording has
\* returned has a non-empty recordingId and an absolute uploadUrl.
C15_InitResult ==
  \A f \in Flows :
    initResponse[f] # NoResponse =>
      /\ initResponse[f].recordingId # ""
      /\ initResponse[f].uploadUrl \in AbsoluteUrls

\* A 2xx init response was taken by invocation f in this step.
InitAnswered(f) ==
  /\ pc[f] = "init" /\ pc'[f] # "init"
  /\ initReply'.kind = "response" /\ ResponseOk(initReply'.status)
\* The run of f ends in 'error' with the validation error, nothing started.
EndsInvalid(f) ==
  /\ error' = Msg("ZodError") /\ state' = "error" /\ pc'[f] = "end"
  /\ calls'[f].upload = 0 /\ xhr'[f] = xhr[f]
  /\ initResponse'[f] = NoResponse /\ recordingId' = recordingId
\* The body lacks a required field or has a field of the wrong type or form.
FailsSchema(body) ==
  \/ body.recordingId.t # "string"
  \/ body.uploadUrl.t # "string"
  \/ body.uploadUrl \notin {JString(u) : u \in AbsoluteUrls}
  \/ body.headers.t \notin {"absent", "record"}

\* C16: a 2xx init response whose body fails the schema (recordingId or
\* uploadUrl missing or wrongly typed, uploadUrl not absolute, headers not a
\* record) makes initRecording fail with the validation error: the run ends
\* in 'error', no transfer is started and no result is held.
C16_ValidationFailure ==
  [][\A f \in Flows :
       InitAnswered(f) /\ FailsSchema(initReply'.body) => EndsInvalid(f)]_vars
\* A run has ended on a body without uploadUrl.
C16_Witness ==
  /\ initReply.kind = "response" /\ ResponseOk(initReply.status)
  /\ initReply.body.uploadUrl = JAbsent /\ initReply.body.recordingId.v = "r1"
  /\ error = Msg("ZodError") /\ state = "error"
  /\ \E f \in Flows : pc[f] = "end" /\ calls[f].upload = 0


\* ------------------------------------------------ the RecordingStatus shape
HasSteps(d) == d.steps.t # "absent"
HasError(d) == d.error.t # "absent"

C18_AssignedOnce ==
  [][/\ recordingId # NullId => recordingId' = recordingId
     /\ recordingId' # recordingId =>
          \E f \in Flows : pc[f] = "init" /\ pc'[f] = "upload"]_vars

\* The transfer of f is under way before and after the step.
Transferring(f) == xhr[f].readyState = "sent" /\ xhr'[f].readyState = "sent"
\* A progress event of f reports `value`, in parts of 1/FileChunks: it lies
\* in [0, 1] and is not below what f reported before.
Reports(f, value) ==
  /\ Transferring(f) /\ xhr[f].total > 0
  /\ value = xhr'[f].sent
  /\ 0 <= value /\ value <= FileChunks /\ value >= xhr[f].sent

C20_ProgressReset ==
  [][\A f \in Flows :
       pc[f] = "idle" /\ pc'[f] = "info"
         => progress' = 0 /\ state' = "init" /\ error' = NoError]_vars
\* The retry of a cancelled transfer has just started.
C20_Witness ==
  /\ pc[1] = "end" /\ calls[1].upload = 1 /\ 1 \in cancelled
  /\ pc[2] = "info" /\ state = "init" /\ progress = 0


\* ------------------------------------------------- the client's errors
\* C21: an init, complete or status call answered with a status outside
\* 200..299 fails; its error carries the status and, when the body text is
\* read and is not empty, that text; no result is returned, also when the
\* body is one the schema of the call accepts.
C21_NonOkFails ==
  (/\ apiCall.fn \in ApiFunctions /\ apiCall.reply.kind = "response"
   /\ apiCall.reply.status \notin 200..299)
    => /\ ~apiCall.result.ok
       /\ apiCall.result.err.text = "Request failed"
       /\ apiCall.result.err.code = apiCall.reply.status
       /\ apiCall.result.err.detail =
            IF apiCall.reply.text \in {"", Unreadable} THEN ""
            ELSE apiCall.reply.text
\* A status call was answered 404 with a body the schema accepts.
C21_Witness ==
  /\ apiCall.fn = "status" /\ apiCall.reply.status = 404
  /\ apiCall.reply.text = "{json}"
  /\ RecordingStatusSchemaOk(apiCall.reply.body)
  /\ ~apiCall.result.ok /\ apiCall.result.err.detail = "{json}"


\* ------------------------------------------------- the local precondition
\* The run of f ends in 'error' with the message given, no request issued.
EndsUnsent(f, message) ==
  /\ state' = "error" /\ error' = Msg(message) /\ pc'[f] = "end"
  /\ calls'[f] = NoCalls /\ xhr'[f] = xhr[f]
BadFile(info) ==
  ~info.thrown /\ (~info.exists \/ info.size \in {Undefined, Num(0)})

\* C22: an invocation without a videoUri, or whose file does not exist or
\* has size 0 or no size, ends in 'error' with a validation message and has
\* issued no request; an ended invocation issues none later; every init
\* request carries the size of the file inspected, which is above 0.
C22_Precondition ==
  [][\A f \in Flows :
       /\ pc[f] = "idle" /\ pc'[f] # "idle" /\ videoUri = ""
            => EndsUnsent(f, "Missing video to upload.")
       /\ pc[f] = "info" /\ pc'[f] # "info" /\ BadFile(fileInfo')
            => EndsUnsent(f, "Could not read video file.")
       /\ pc[f] = "end" => pc'[f] = "end" /\ calls'[f] = calls[f]
       /\ calls'[f].init > calls[f].init
            => /\ calls'[f].sizeBytes > 0
               /\ fileInfo'.exists /\ fileInfo'.size = Num(calls'[f].sizeBytes)
    ]_vars
\* A run has ended on a file of size 0 and a retry has sent its init request.
C22_Witness ==
  /\ pc[1] = "end" /\ calls[1] = NoCalls
  /\ pc[2] = "init" /\ calls[2].init = 1 /\ calls[2].sizeBytes > 0

\* C23: the hand-off to the result screen is made only by the step in which
\* the completion request of the same run ends with a 2xx response, and the
\* recordingId that the completion request carries and that is handed to the
\* result screen is the one of that run's own init response, whatever earlier
\* runs failed with and whatever id the screen's state holds by then.
C23_HandOff ==
  [][\A f \in Flows :
       /\ (initResponse'[f] # initResponse[f] /\ initResponse'[f] # NoResponse)
            => /\ initResponse[f] = NoResponse /\ pc[f] = "init"
               /\ initReply'.kind = "response" /\ ResponseOk(initReply'.status)
               /\ initResponse'[f].recordingId = initReply'.body.recordingId.v
       /\ calls'[f].complete > calls[f].complete
            => /\ initResponse[f] # NoResponse
               /\ calls'[f].completeId = initResponse[f].recordingId
       /\ \A h \in handoff' \ handoff :
            h[1] = f
              => /\ pc[f] = "complete" /\ calls[f].complete = 1
                 /\ completeReply'.kind = "response"
                 /\ ResponseOk(completeReply'.status)
                 /\ h[2] = calls[f].completeId
                 /\ h[2] = initResponse[f].recordingId
    ]_vars

\* The second run hands off its own id while the screen's state holds the id
\* of the first run, which failed.
C23_Witness ==
  /\ <<2, "r1">> \in handoff /\ pc[1] = "end" /\ calls[1].upload = 1
  /\ <<1, "">> \notin handoff /\ recordingId = ""

\* C24: a run that no cancel has touched goes on at each of its three
\* awaits when the awaited call succeeds: an init request answered 2xx with a
\* valid body starts the transfer, a transfer that ends with 'load' and a 2xx
\* status (after whatever progress events) sends the completion
\* notification, and a completion request answered 2xx puts the screen into
\* 'done' and hands over the recordingId of the run's init response.
Untouched(f) == ~aborted[f] /\ f \notin cancelled
C24_HappyPath ==
  [][\A f \in Flows :
       /\ (/\ pc[f] = "init" /\ pc'[f] # "init"
           /\ initReply'.kind = "response" /\ ResponseOk(initReply'.status)
           /\ SchemaOk(initReply'.body))
            => /\ pc'[f] = "upload" /\ state' = "uploading"
               /\ calls'[f].upload = 1
               /\ initResponse'[f].recordingId = initReply'.body.recordingId.v
       /\ (/\ pc[f] = "upload" /\ pc'[f] # "upload" /\ Untouched(f)
           /\ xhr[f].event = "load" /\ xhr[f].status \in TwoXX)
            => /\ pc'[f] = "complete" /\ state' = "notifying"
               /\ calls'[f].complete = 1
               /\ initResponse'[f] = initResponse[f]
       /\ (/\ pc[f] = "complete" /\ pc'[f] # "complete" /\ Untouched(f)
           /\ completeReply'.kind = "response"
           /\ ResponseOk(completeReply'.status))
            => /\ pc'[f] = "end" /\ state' = "done" /\ error' = error
               /\ <<f, initResponse[f].recordingId>> \in handoff'
    ]_vars

\* A run reported the parts of its file up to the whole and reached 'done'.
C24_Witness ==
  \E f \in Flows :
    /\ state = "done" /\ pc[f] = "end" /\ <<f, "r1">> \in handoff
    /\ Untouched(f) /\ progress = FileChunks
    /\ completeReply.status = 200 /\ initReply.body.recordingId.v = "r1"

\* C25: whenever a finished recording is handed to the preview screen, the
\* markers it is handed are the seconds that Mark Step added since that
\* recording was started, in the order they were added.
C25_MarkersOfRecording ==
  [][Len(pushed') > Len(pushed)
       => pushed'[Len(pushed')].markers = Stringify(tagged)]_vars

\* C26: the promise of an uploadVideo call is settled by the first 'load',
\* 'error' or 'abort' event or by send() throwing, with the outcome of that
\* event; once settled its outcome is not changed by any later event, and
\* resolve and reject are called once between them.
FirstDecides(x) ==
  CASE x.event = "load" ->
         IF x.status \in TwoXX THEN x.outcome = Resolved
         ELSE x.outcome.kind = "status"
    [] x.event = "error" -> x.outcome.kind = "network"
    [] x.event = "abort" -> x.outcome.kind = "abort"
    [] x.event = "throw" -> x.outcome.kind = "send"
    [] OTHER -> FALSE
C26_FirstSettles ==
  [][\A f \in Flows :
       /\ (xhr[f].outcome = Pending /\ xhr'[f].outcome # Pending)
            => FirstDecides(xhr'[f])
       /\ xhr[f].outcome # Pending => xhr'[f].outcome = xhr[f].outcome
       /\ xhr'[f].resolves + xhr'[f].rejects <= 1
       /\ xhr'[f].resolves = 1 <=> xhr'[f].outcome = Resolved
    ]_vars

\* A call that resolved has since been sent an 'error' event, and a call
\* whose send() threw a 'load' with a 2xx status.
C26_Witness ==
  \E f, g \in Flows :
    /\ xhr[f].outcome = Resolved /\ xhr[f].event = "error"
    /\ xhr[g].outcome.kind = "send" /\ xhr[g].event = "load"
    /\ xhr[g].status \in TwoXX

\* C27: when every call a run awaits settles in the end, every run that was
\* started ends, and whenever the screen shows 'init', 'uploading' or
\* 'notifying' it later shows 'done' or 'error', whether or not Cancel is
\* pressed on the way.
C27_Terminates ==
  /\ \A f \in Flows : (pc[f] # "idle") ~> (pc[f] = "end")
  /\ (state \in {"init", "uploading", "notifying"})
       ~> (state \in {"done", "error"})

\* A run that was cancelled while uploading has ended, and so has the retry
\* after it, with 'done'.
C27_Witness ==
  /\ 1 \in cancelled /\ pc[1] = "end"
  /\ pc[2] = "end" /\ state = "done" /\ owner = 2

====
